---- MODULE Spec2Model ----
(***************************************************************************)
(* Model of custom_components/tpms_ble/tpms_parser/parser.py:              *)
(* TPMSBluetoothDeviceData, the session that matches a TPMS advertisement, *)
(* runs the subscribe/command handshake and decodes the 16-character       *)
(* notification frames into sensor updates.                                *)
(*                                                                         *)
(* Text is a sequence of characters, bytes a sequence of byte names.  An   *)
(* ASCII character and its byte share the one-character string; the bytes  *)
(* "xC3" "xA9" are the UTF-8 encoding of the character "U+00E9", and "xFF" *)
(* is a byte no UTF-8 text contains.  Pressure is kept in half psi (the    *)
(* code adds 0.5 to an integer), everything else in its own unit.          *)
(***************************************************************************)
EXTENDS Integers, Sequences, FiniteSets, TLC

VARIABLES
    notify_char,          \* self.notify_char: a characteristic handle or None
    write_char,           \* self.write_char
    device_manufacturer,  \* set_device_manufacturer
    device_name,          \* set_device_name
    device_type,          \* set_device_type
    title,                \* set_title
    tasks,                \* the runs of _start_update suspended in, or past, the handshake
    callbacks,            \* handles on which start_notify has registered _on_data_received
    service_info,         \* the advertisement last given to _start_update
    adverts,              \* number of advertisements processed
    pending,              \* notification bytes delivered and not yet handled
    data,                 \* the bytes last given to _on_data_received
    outcome,              \* the return site _on_data_received last left by
    updates,              \* the update_sensor calls of the last notification
    sensors,              \* latest native_value per sensor key
    clock,                \* datetime.now()
    notifications,        \* number of notifications delivered
    log,                  \* the return sites of the notifications handled, in order
    flag_call             \* a call of byte2flag: its arguments and its result

vars == <<notify_char, write_char, device_manufacturer, device_name, device_type,
          title, tasks, callbacks, service_info, adverts, pending, data, outcome,
          updates, sensors, clock, notifications, log, flag_call>>

streamVars == <<pending, data, outcome, updates, sensors, clock, notifications,
                device_type, log, flag_call>>

None == "None"

\* ------------------------------------------------------------------ bounds
MaxAdverts == 2
MaxNotifications == 1

\* --------------------------------------------------------------- constants
TARGET_NAMES == <<"TYREDOG", "JDY-08", "Realtek", "RB8762">>
SERVICE_UUID == "6E400001-B5A3-F393-E0A9-E50E24DCCA9E"
WRITE_CHARACTERISTIC_UUID == "6E400002-B5A3-F393-E0A9-E50E24DCCA9E"
NOTIFY_CHARACTERISTIC_UUID == "6E400003-B5A3-F393-E0A9-E50E24DCCA9E"

\* asyncio.sleep(0.1) and asyncio.sleep(0.3), in milliseconds
SettleDelayMs == 100
StreamDelayMs == 300

\* command = "$A0240138#"
command == <<"$", "A", "0", "2", "4", "0", "1", "3", "8", "#">>

PRESSURE == "pressure"
TEMPERATURE == "temperature"
BATTERY == "battery"
TIMESTAMP == "timestamp"
ALARM == "alarm"

\* ---------------------------------------------------------------- helpers
Range(s) == {s[i] : i \in 1..Len(s)}

\* x in list
InList(x, list) == \E i \in 1..Len(list) : list[i] = x

\* ------------------------------------------------------------ UTF-8 codec
AsciiChars ==
    {"$", "#", "A", "B", "C", "D", "E", "F", "G", "a", "b", "c", "d", "e", "f",
     "x", "X", "0", "1", "2", "3", "4", "5", "6", "7", "8", "9",
     " ", "-", "+", "_"}

\* bytes.decode("utf-8"): ok and the text, or not ok (UnicodeDecodeError)
RECURSIVE Utf8Decode(_)
Utf8Decode(bytes) ==
    IF bytes = <<>> THEN [ok |-> TRUE, text |-> <<>>]
    ELSE IF Head(bytes) \in AsciiChars
         THEN LET rest == Utf8Decode(Tail(bytes))
              IN  [ok |-> rest.ok, text |-> <<Head(bytes)>> \o rest.text]
    ELSE IF Head(bytes) = "xC3" /\ Len(bytes) >= 2 /\ bytes[2] = "xA9"
         THEN LET rest == Utf8Decode(Tail(Tail(bytes)))
              IN  [ok |-> rest.ok, text |-> <<"U+00E9">> \o rest.text]
    ELSE [ok |-> FALSE, text |-> <<>>]

\* str.encode("utf-8")
RECURSIVE Utf8Encode(_)
Utf8Encode(text) ==
    IF text = <<>> THEN <<>>
    ELSE (IF Head(text) = "U+00E9" THEN <<"xC3", "xA9">> ELSE <<Head(text)>>)
         \o Utf8Encode(Tail(text))

\* ------------------------------------------------------------ advertisements
Characteristic(uuid, handle) == [uuid |-> uuid, handle |-> handle]

\* the scan starting from empty handles instead of the handles held
ScanCharacteristics_Reset(chars, n, w) ==
    LET ns == SelectSeq(chars, LAMBDA c : c.uuid = NOTIFY_CHARACTERISTIC_UUID)
        ws == SelectSeq(chars, LAMBDA c : c.uuid = WRITE_CHARACTERISTIC_UUID)
    IN  [notify |-> IF ns = <<>> THEN None ELSE ns[Len(ns)].handle,
         write |-> IF ws = <<>> THEN None ELSE ws[Len(ws)].handle]

\* the for loop of _start_update: the last characteristic of a UUID wins
RECURSIVE ScanCharacteristics(_, _, _)
ScanCharacteristics(chars, n, w) ==
    IF chars = <<>> THEN [notify |-> n, write |-> w]
    ELSE LET char == Head(chars)
         IN  IF char.uuid = NOTIFY_CHARACTERISTIC_UUID
             THEN ScanCharacteristics(Tail(chars), char.handle, w)
             ELSE IF char.uuid = WRITE_CHARACTERISTIC_UUID
             THEN ScanCharacteristics(Tail(chars), n, char.handle)
             ELSE ScanCharacteristics(Tail(chars), n, w)

\* the name test left out
NameMatches_AnyName(si) == TRUE

\* service_info.name in self.TARGET_NAMES
NameMatches(si) == InList(si.name, TARGET_NAMES)

\* self.SERVICE_UUID in service_info.service_uuids
ServiceMatches(si) == SERVICE_UUID \in si.service_uuids

\* one handle is enough
PairComplete_Either(n, w) == n # None \/ w # None

\* if self.notify_char and self.write_char
PairComplete(n, w) == n # None /\ w # None

\* A run of _start_update that reached the handshake: it is suspended in the
\* first sleep of _enable_notifications_and_send_command.
NewTask(n, w) ==
    [pc |-> "sleep1",
     steps |-> <<[op |-> "sleep", ms |-> SettleDelayMs]>>,
     notify_at_start |-> n,
     write_at_start |-> w,
     after_failure |-> \E i \in DOMAIN tasks : tasks[i].pc = "raised"]

\* _start_update(service_info), up to its first suspension
StartUpdate(si) ==
    /\ adverts < MaxAdverts
    /\ adverts' = adverts + 1
    /\ service_info' = si
    /\ IF ~NameMatches(si) \/ ~ServiceMatches(si)
       THEN UNCHANGED <<notify_char, write_char, device_manufacturer, device_name,
                        title, tasks>>
       ELSE LET pair == ScanCharacteristics(si.characteristics, notify_char, write_char)
            IN  /\ device_manufacturer' = "TPMS"
                /\ device_name' = si.name
                /\ title' = si.name
                /\ notify_char' = pair.notify
                /\ write_char' = pair.write
                /\ tasks' = IF PairComplete(pair.notify, pair.write)
                            THEN Append(tasks, NewTask(pair.notify, pair.write))
                            ELSE tasks
    /\ UNCHANGED <<callbacks, streamVars>>

\* ------------------------------------------------------------- handshake
SetPc(i, pc) == [tasks EXCEPT ![i].pc = pc]

AddStep(i, pc, step) ==
    [tasks EXCEPT ![i].pc = pc, ![i].steps = Append(@, step)]

\* await self.notify_char.start_notify(self._on_data_received)
NotifyStep == [op |-> "start_notify", handle |-> notify_char,
               callback |-> "_on_data_received"]

\* the write asking for an acknowledgment
WriteStep_WithResponse ==
    [op |-> "write_value", handle |-> write_char,
     value |-> Utf8Encode(command), response |-> TRUE]

\* await self.write_char.write_value(command.encode("utf-8"), response=False)
WriteStep == [op |-> "write_value", handle |-> write_char,
              value |-> Utf8Encode(command), response |-> FALSE]

\* the first sleep is over: start_notify is called
Subscribe(i) ==
    /\ tasks[i].pc = "sleep1"
    /\ tasks' = AddStep(i, "start_notify", NotifyStep)
    /\ UNCHANGED <<notify_char, write_char, device_manufacturer, device_name, title,
                   callbacks, service_info, adverts, streamVars>>

\* start_notify has returned: the command is written
WriteCommand(i) ==
    /\ tasks[i].pc = "start_notify"
    /\ callbacks' = callbacks \cup {tasks[i].steps[Len(tasks[i].steps)].handle}
    /\ tasks' = AddStep(i, "write_value", WriteStep)
    /\ UNCHANGED <<notify_char, write_char, device_manufacturer, device_name, title,
                   service_info, adverts, streamVars>>

\* write_value has returned: the second sleep starts
SleepAfterWrite(i) ==
    /\ tasks[i].pc = "write_value"
    /\ tasks' = AddStep(i, "sleep2", [op |-> "sleep", ms |-> StreamDelayMs])
    /\ UNCHANGED <<notify_char, write_char, device_manufacturer, device_name, title,
                   callbacks, service_info, adverts, streamVars>>

\* the run ends only once a notification has been handled
Finish_AfterFirstFrame(i) ==
    /\ tasks[i].pc = "sleep2"
    /\ outcome # None
    /\ tasks' = SetPc(i, "done")
    /\ UNCHANGED <<notify_char, write_char, device_manufacturer, device_name, title,
                   callbacks, service_info, adverts, streamVars>>

\* the second sleep is over: _start_update returns
Finish(i) ==
    /\ tasks[i].pc = "sleep2"
    /\ tasks' = SetPc(i, "done")
    /\ UNCHANGED <<notify_char, write_char, device_manufacturer, device_name, title,
                   callbacks, service_info, adverts, streamVars>>

\* start_notify or write_value raises: the exception leaves _start_update
TransportError(i) ==
    /\ tasks[i].pc \in {"start_notify", "write_value"}
    /\ tasks' = SetPc(i, "raised")
    /\ UNCHANGED <<notify_char, write_char, device_manufacturer, device_name, title,
                   callbacks, service_info, adverts, streamVars>>

\* ------------------------------------------------- advertisements delivered
OTHER_UUID == "0000180F-0000-1000-8000-00805F9B34FB"

N1 == Characteristic(NOTIFY_CHARACTERISTIC_UUID, "n1")
N2 == Characteristic(NOTIFY_CHARACTERISTIC_UUID, "n2")
W1 == Characteristic(WRITE_CHARACTERISTIC_UUID, "w1")
W2 == Characteristic(WRITE_CHARACTERISTIC_UUID, "w2")
O1 == Characteristic(OTHER_UUID, "o1")

Advert(name, service_uuids, characteristics) ==
    [name |-> name, service_uuids |-> service_uuids,
     characteristics |-> characteristics]

\* the advertisements delivered: matching ones with both, one or no target
\* characteristic, and ones whose name or service set does not match
Advertisements ==
    {Advert("TYREDOG", {SERVICE_UUID}, <<W1, O1, N1>>),
     Advert("RB8762", {OTHER_UUID, SERVICE_UUID}, <<N2, W2>>),
     Advert("JDY-08", {SERVICE_UUID}, <<N1, N2>>),
     Advert("Realtek", {SERVICE_UUID}, <<W1>>),
     Advert("TYREDOG", {SERVICE_UUID}, <<>>),
     Advert("tyredog", {SERVICE_UUID}, <<W1, O1, N1>>),
     Advert("TPMS", {OTHER_UUID, SERVICE_UUID}, <<N2, W2>>),
     Advert("TYREDOG", {OTHER_UUID}, <<W1, O1, N1>>)}

NoAdvert == [name |-> None, service_uuids |-> {}, characteristics |-> <<>>]

\* ------------------------------------------------------------ int(s, 16)
HexDigits == <<"0", "1", "2", "3", "4", "5", "6", "7", "8", "9",
               "a", "b", "c", "d", "e", "f">>

UpperHexDigits == <<"0", "1", "2", "3", "4", "5", "6", "7", "8", "9",
                    "A", "B", "C", "D", "E", "F">>

\* the value of a hexadecimal digit of either case, or -1
DigitValue(c) ==
    IF \E v \in 1..16 : HexDigits[v] = c \/ UpperHexDigits[v] = c
    THEN (CHOOSE v \in 1..16 : HexDigits[v] = c \/ UpperHexDigits[v] = c) - 1
    ELSE -1

IsHexDigit(c) == DigitValue(c) >= 0

ValueError == [ok |-> FALSE, value |-> 0]

RECURSIVE StripLeft(_)
StripLeft(s) == IF s # <<>> /\ Head(s) = " " THEN StripLeft(Tail(s)) ELSE s

RECURSIVE StripRight(_)
StripRight(s) ==
    IF s # <<>> /\ s[Len(s)] = " " THEN StripRight(SubSeq(s, 1, Len(s) - 1)) ELSE s

\* the digits of a literal: single underscores are allowed between digits only
RECURSIVE ParseDigits(_, _, _)
ParseDigits(s, acc, after_digit) ==
    IF s = <<>>
    THEN IF after_digit THEN [ok |-> TRUE, value |-> acc] ELSE ValueError
    ELSE IF Head(s) = "_"
         THEN IF after_digit THEN ParseDigits(Tail(s), acc, FALSE) ELSE ValueError
    ELSE IF IsHexDigit(Head(s))
         THEN ParseDigits(Tail(s), acc * 16 + DigitValue(Head(s)), TRUE)
    ELSE ValueError

\* an optional 0x or 0X, which one underscore may follow, then the digits
ParseUnsigned(s) ==
    IF Len(s) >= 2 /\ s[1] = "0" /\ s[2] \in {"x", "X"}
    THEN LET rest == SubSeq(s, 3, Len(s))
         IN  IF rest # <<>> /\ Head(rest) = "_"
             THEN ParseDigits(Tail(rest), 0, FALSE)
             ELSE ParseDigits(rest, 0, FALSE)
    ELSE ParseDigits(s, 0, FALSE)

\* Python's int(s, 16): surrounding whitespace is stripped, a sign is allowed
IntBase16(s) ==
    LET t == StripRight(StripLeft(s))
    IN  IF t = <<>> THEN ValueError
        ELSE IF Head(t) = "-"
             THEN LET r == ParseUnsigned(Tail(t))
                  IN  [ok |-> r.ok, value |-> 0 - r.value]
        ELSE IF Head(t) = "+" THEN ParseUnsigned(Tail(t))
        ELSE ParseUnsigned(t)

\* ------------------------------------------------------------ frame decoding
\* data[i] and data[a:b] with Python's 0-based positions
At(text, i) == <<text[i + 1]>>

Slice(text, a, b) == SubSeq(text, a + 1, b)

\* data.startswith(prefix), data.endswith(suffix)
StartsWith(text, prefix) ==
    Len(text) >= Len(prefix) /\ SubSeq(text, 1, Len(prefix)) = prefix

EndsWith(text, suffix) ==
    Len(text) >= Len(suffix)
    /\ SubSeq(text, Len(text) - Len(suffix) + 1, Len(text)) = suffix

\* the loop of byte2flag: n more rounds of val = byte0 % 2; byte0 = byte0 // 2
RECURSIVE Byte2FlagLoop(_, _, _)
Byte2FlagLoop(byte0, n, val) ==
    IF n = 0 THEN val ELSE Byte2FlagLoop(byte0 \div 2, n - 1, byte0 % 2)

\* the loop run bit times instead of bit + 1 times
byte2flag_BitRounds(byte1, byte0, bit) == Byte2FlagLoop((byte1 * 16) + byte0, bit, 0) = 1

byte2flag(byte1, byte0, bit) == Byte2FlagLoop((byte1 * 16) + byte0, bit + 1, 0) = 1

\* the return sites of _handle_16_byte_data
Rejected(site) == [is_none |-> TRUE, site |-> site]

\* the parsing without its try/except: the exception leaves the handler
OnParseError_Raises == Rejected("raised")

\* except Exception as e: the warning is logged and None returned
OnParseError == Rejected("error")

\* the two battery values exchanged
BatteryValue_Swapped(battery_low) == IF battery_low THEN 100 ELSE 20

\* "battery": 20 if battery_low else 100
BatteryValue(battery_low) == IF battery_low THEN 20 ELSE 100

\* pressure = int(pressure_hex, 16); if half_point: pressure += 0.5  (in half psi)
PressureValue(raw, half_point) == 2 * raw + (IF half_point THEN 1 ELSE 0)

\* temperature = int(temp_hex, 16) - 40
TemperatureValue(raw) == raw - 40

\* the sensor numbered from 0
SensorNo_ZeroBased(raw) == raw

\* sensor_no = int(data[6], 16) + 1
SensorNo(raw) == raw + 1

\* the freshness flag read from bit 6
DataFresh_Bit6(flag_hi, flag_lo) == byte2flag(flag_hi, flag_lo, 6)

\* rx_data_fresh = byte2flag(flag_hi, flag_lo, 7)
DataFresh(flag_hi, flag_lo) == byte2flag(flag_hi, flag_lo, 7)

\* the test passing a frame that has the prefix or the suffix
FormatOk_Either(text) == StartsWith(text, <<"$", "A", "0">>) \/ EndsWith(text, <<"#">>)

\* the prefix and suffix test of _handle_16_byte_data
FormatOk(text) == StartsWith(text, <<"$", "A", "0">>) /\ EndsWith(text, <<"#">>)

\* _handle_16_byte_data(data): the dict, or None with the site that returned it
Handle16ByteData(text) ==
    IF ~FormatOk(text) THEN Rejected("format")
    ELSE
    LET sensor_raw == IntBase16(At(text, 6))
        flag_hi == IntBase16(At(text, 7))
        flag_lo == IntBase16(At(text, 8))
    IN  IF ~sensor_raw.ok \/ ~flag_hi.ok \/ ~flag_lo.ok THEN OnParseError
        ELSE
        LET battery_low == byte2flag(flag_hi.value, flag_lo.value, 1)
            rx_data_fresh == DataFresh(flag_hi.value, flag_lo.value)
            half_point == byte2flag(flag_hi.value, flag_lo.value, 0)
        IN  IF ~rx_data_fresh THEN Rejected("stale")
            ELSE
            LET pressure_hex == Slice(text, 9, 11) \o At(text, 11)
                temp_hex == Slice(text, 11, 13)
                pressure == IntBase16(pressure_hex)
                temperature == IntBase16(temp_hex)
            IN  IF ~pressure.ok \/ ~temperature.ok THEN OnParseError
                ELSE [is_none |-> FALSE,
                      pressure |-> PressureValue(pressure.value, half_point),
                      temperature |-> TemperatureValue(temperature.value),
                      battery |-> BatteryValue(battery_low),
                      sensor_no |-> SensorNo(sensor_raw.value)]

\* name = f"TPMS Sensor {sensor_no}"
SensorName(sensor_no) == "TPMS Sensor " \o ToString(sensor_no)

UpdateSensor(key, unit, value, name) ==
    [key |-> key, native_unit_of_measurement |-> unit, native_value |-> value,
     name |-> name]

\* the timestamp update left out
SensorUpdates_NoTimestamp(parsed, now) ==
    <<UpdateSensor(PRESSURE, "psi", parsed.pressure, "Pressure"),
      UpdateSensor(TEMPERATURE, "U+00C2 U+00B0 C", parsed.temperature, "Temperature"),
      UpdateSensor(BATTERY, "%", parsed.battery, "Battery")>>

\* the four update_sensor calls of _update_sensors, in order; the unit of the
\* temperature is the source's literal, U+00C2 U+00B0 C
SensorUpdates(parsed, now) ==
    <<UpdateSensor(PRESSURE, "psi", parsed.pressure, "Pressure"),
      UpdateSensor(TEMPERATURE, "U+00C2 U+00B0 C", parsed.temperature, "Temperature"),
      UpdateSensor(BATTERY, "%", parsed.battery, "Battery"),
      UpdateSensor(TIMESTAMP, None, now, "Last Update")>>

\* update_sensor keeps the latest native_value of each key
RECURSIVE ApplyUpdates(_, _)
ApplyUpdates(state, calls) ==
    IF calls = <<>> THEN state
    ELSE ApplyUpdates(
             [k \in DOMAIN state \cup {Head(calls).key} |->
                 IF k = Head(calls).key THEN Head(calls).native_value ELSE state[k]],
             Tail(calls))

\* if len(data_str) == 16
FrameLength == 16

\* a frame dropped when the frame before it failed to parse
EligibleLength_AfterError(text) == Len(text) = FrameLength /\ outcome # "error"

EligibleLength(text) == Len(text) = FrameLength

\* _on_data_received(data)
OnDataReceived ==
    /\ pending # <<>>
    /\ pending' = Tail(pending)
    /\ data' = Head(pending)
    /\ LET decoded == Utf8Decode(Head(pending))
       IN  IF ~decoded.ok
           THEN /\ outcome' = "UnicodeDecodeError"
                /\ updates' = <<>>
                /\ UNCHANGED <<sensors, device_type, title>>
           ELSE IF ~EligibleLength(decoded.text)
           THEN /\ outcome' = "ignored"
                /\ updates' = <<>>
                /\ UNCHANGED <<sensors, device_type, title>>
           ELSE LET parsed == Handle16ByteData(decoded.text)
                IN  IF parsed.is_none
                    THEN /\ outcome' = parsed.site
                         /\ updates' = <<>>
                         /\ UNCHANGED <<sensors, device_type, title>>
                    ELSE /\ outcome' = "updated"
                         /\ device_type' = SensorName(parsed.sensor_no)
                         /\ title' = SensorName(parsed.sensor_no)
                         /\ updates' = SensorUpdates(parsed, clock)
                         /\ sensors' = ApplyUpdates(sensors, SensorUpdates(parsed, clock))
    /\ log' = Append(log, outcome')
    /\ UNCHANGED <<notify_char, write_char, device_manufacturer, device_name, tasks,
                   callbacks, service_info, adverts, clock, notifications,
                   flag_call>>

\* ------------------------------------------------- notifications delivered
\* the transport calls the registered callback with the bytes of a
\* notification, at most limit times
Deliver(bytes, limit) ==
    /\ callbacks # {}
    /\ pending = <<>>
    /\ notifications < limit
    /\ notifications' = notifications + 1
    /\ clock' = clock + 1
    /\ pending' = <<bytes>>
    /\ UNCHANGED <<notify_char, write_char, device_manufacturer, device_name,
                   device_type, title, tasks, callbacks, service_info, adverts,
                   data, outcome, updates, sensors, log, flag_call>>

DeliverNotification(bytes) == Deliver(bytes, MaxNotifications)

\* the parts of a frame around its seven field characters
Shape(prefix, fill1, fill2, suffix) ==
    [prefix |-> prefix, fill1 |-> fill1, fill2 |-> fill2, suffix |-> suffix]

WellFormedShape == Shape(<<"$", "A", "0">>, <<"0", "0", "0">>, <<"0", "0">>, <<"#">>)

FrameShapes ==
    {WellFormedShape,
     Shape(<<"$", "A", "1">>, <<"0", "0", "0">>, <<"0", "0">>, <<"#">>),
     Shape(<<"$", "A", "0">>, <<"0", "0", "0">>, <<"0", "0">>, <<"0">>),
     Shape(<<"$", "A", "0">>, <<"0", "0", "0">>, <<"0">>, <<"#">>),
     Shape(<<"$", "A", "0">>, <<"0", "0", "0">>, <<"0", "0", "0">>, <<"#">>),
     Shape(<<"$", "A", "0">>, <<"xC3", "xA9", "0", "0">>, <<"0", "0">>, <<"#">>),
     Shape(<<"$", "A", "0">>, <<"xC3", "xA9", "0">>, <<"0", "0">>, <<"#">>),
     Shape(<<"$", "A", "0">>, <<"xFF", "0", "0">>, <<"0", "0">>, <<"#">>)}

\* the characters tried at positions 6..12
FieldChars ==
    <<{"0", "3", "F", "G"},
      {"0", "7", "8", "F"},
      {"0", "1", "2", "3"},
      {"0", "F", "-"},
      {"1", "x", "_"},
      {"0", "2", " "},
      {"0", "8", " ", "G"}>>

FrameFields ==
    FieldChars[1] \X FieldChars[2] \X FieldChars[3] \X FieldChars[4]
        \X FieldChars[5] \X FieldChars[6] \X FieldChars[7]

Frame(shape, fields) ==
    shape.prefix \o shape.fill1 \o fields \o shape.fill2 \o shape.suffix

FrameInputs == {Frame(shape, fields) : shape \in FrameShapes, fields \in FrameFields}

\* the frames delivered to a session: one accepted, one stale
StreamFrames ==
    {Frame(WellFormedShape, <<"3", "8", "1", "0", "1", "2", "8">>),
     Frame(WellFormedShape, <<"0", "7", "3", "F", "1", "0", "0">>)}

\* no call of byte2flag in progress
NoFlagCall == [byte1 |-> 0, byte0 |-> 0, bit |-> 0, done |-> FALSE, result |-> FALSE]

\* ---------------------------------------------------------- specification
Init ==
    /\ notify_char = None
    /\ write_char = None
    /\ device_manufacturer = None
    /\ device_name = None
    /\ device_type = None
    /\ title = None
    /\ tasks = <<>>
    /\ callbacks = {}
    /\ service_info = NoAdvert
    /\ adverts = 0
    /\ pending = <<>>
    /\ data = <<>>
    /\ outcome = None
    /\ updates = <<>>
    /\ sensors = <<>>
    /\ clock = 0
    /\ notifications = 0
    /\ log = <<>>
    /\ flag_call = NoFlagCall

Next ==
    \/ \E si \in Advertisements : StartUpdate(si)
    \/ \E i \in 1..Len(tasks) : Subscribe(i)
    \/ \E i \in 1..Len(tasks) : WriteCommand(i)
    \/ \E i \in 1..Len(tasks) : SleepAfterWrite(i)
    \/ \E i \in 1..Len(tasks) : Finish(i)
    \/ \E i \in 1..Len(tasks) : TransportError(i)
    \/ \E bytes \in StreamFrames : DeliverNotification(bytes)
    \/ OnDataReceived

Spec == Init /\ [][Next]_vars

\* A session that has completed its handshake and has one notification to handle
StreamingAdvert ==
    [name |-> "TYREDOG", service_uuids |-> {SERVICE_UUID},
     characteristics |-> <<W1, N1>>]

StreamingTask ==
    [pc |-> "done",
     steps |-> <<[op |-> "sleep", ms |-> SettleDelayMs],
                 [op |-> "start_notify", handle |-> "n1",
                  callback |-> "_on_data_received"],
                 [op |-> "write_value", handle |-> "w1",
                  value |-> Utf8Encode(command), response |-> FALSE],
                 [op |-> "sleep", ms |-> StreamDelayMs]>>,
     notify_at_start |-> "n1",
     write_at_start |-> "w1",
     after_failure |-> FALSE]

FrameInit ==
    /\ notify_char = "n1"
    /\ write_char = "w1"
    /\ device_manufacturer = "TPMS"
    /\ device_name = "TYREDOG"
    /\ device_type = None
    /\ title = "TYREDOG"
    /\ tasks = <<StreamingTask>>
    /\ callbacks = {"n1"}
    /\ service_info = StreamingAdvert
    /\ adverts = 1
    /\ pending \in {<<bytes>> : bytes \in FrameInputs}
    /\ data = <<>>
    /\ outcome = None
    /\ updates = <<>>
    /\ sensors = <<>>
    /\ clock = 1
    /\ notifications = 1
    /\ log = <<>>
    /\ flag_call = NoFlagCall

FrameNext == OnDataReceived

FrameSpec == FrameInit /\ [][FrameNext]_vars

\* A session that has completed its handshake receives a sequence of
\* notifications: accepted, stale, malformed, undecodable and short ones.
MaxHistory == 3

AcceptedFrameA == Frame(WellFormedShape, <<"3", "8", "1", "0", "1", "2", "8">>)

AcceptedFrameB == Frame(WellFormedShape, <<"0", "8", "2", "F", "1", "0", "0">>)

StaleFrame == Frame(WellFormedShape, <<"0", "7", "3", "F", "1", "0", "0">>)

MalformedFrame == Frame(WellFormedShape, <<"G", "8", "1", "0", "1", "2", "8">>)

UndecodableFrame ==
    Frame(Shape(<<"$", "A", "0">>, <<"xFF", "0", "0">>, <<"0", "0">>, <<"#">>),
          <<"3", "8", "1", "0", "1", "2", "8">>)

ShortFrame == <<"$", "A", "0", "#">>

HistoryFrames ==
    {AcceptedFrameA, AcceptedFrameB, StaleFrame, MalformedFrame, UndecodableFrame,
     ShortFrame}

StreamInit ==
    /\ notify_char = "n1"
    /\ write_char = "w1"
    /\ device_manufacturer = "TPMS"
    /\ device_name = "TYREDOG"
    /\ device_type = None
    /\ title = "TYREDOG"
    /\ tasks = <<StreamingTask>>
    /\ callbacks = {"n1"}
    /\ service_info = StreamingAdvert
    /\ adverts = 1
    /\ pending = <<>>
    /\ data = <<>>
    /\ outcome = None
    /\ updates = <<>>
    /\ sensors = <<>>
    /\ clock = 0
    /\ notifications = 0
    /\ log = <<>>
    /\ flag_call = NoFlagCall

StreamNext ==
    \/ \E bytes \in HistoryFrames : Deliver(bytes, MaxHistory)
    \/ OnDataReceived

StreamSpec == StreamInit /\ [][StreamNext]_vars

\* The session when every delay and every transport call returns: the event
\* loop resumes each suspended run of _start_update once its await is over.
TaskStep(i) ==
    /\ i \in DOMAIN tasks
    /\ \/ Subscribe(i)
       \/ WriteCommand(i)
       \/ SleepAfterWrite(i)
       \/ Finish(i)

LiveNext ==
    \/ \E si \in Advertisements : StartUpdate(si)
    \/ \E i \in 1..MaxAdverts : TaskStep(i)
    \/ \E bytes \in StreamFrames : DeliverNotification(bytes)
    \/ OnDataReceived

LiveSpec ==
    /\ Init
    /\ [][LiveNext]_vars
    /\ \A i \in 1..MaxAdverts : WF_vars(TaskStep(i))

\* byte2flag called on every pair of hex digit values and every bit of a byte
FlagCalls ==
    {[byte1 |-> hi, byte0 |-> lo, bit |-> b, done |-> FALSE, result |-> FALSE] :
        hi \in 0..15, lo \in 0..15, b \in 0..7}

CallByte2Flag ==
    /\ ~flag_call.done
    /\ flag_call' = [flag_call EXCEPT
                         !.done = TRUE,
                         !.result = byte2flag(flag_call.byte1, flag_call.byte0,
                                              flag_call.bit)]
    /\ UNCHANGED <<notify_char, write_char, device_manufacturer, device_name,
                   device_type, title, tasks, callbacks, service_info, adverts,
                   pending, data, outcome, updates, sensors, clock, notifications,
                   log>>

FlagInit ==
    /\ notify_char = None
    /\ write_char = None
    /\ device_manufacturer = None
    /\ device_name = None
    /\ device_type = None
    /\ title = None
    /\ tasks = <<>>
    /\ callbacks = {}
    /\ service_info = NoAdvert
    /\ adverts = 0
    /\ pending = <<>>
    /\ data = <<>>
    /\ outcome = None
    /\ updates = <<>>
    /\ sensors = <<>>
    /\ clock = 0
    /\ notifications = 0
    /\ log = <<>>
    /\ flag_call \in FlagCalls

FlagNext == CallByte2Flag

FlagSpec == FlagInit /\ [][FlagNext]_vars

\* ================================================================ properties
\* The names of the claims' own vocabulary.
AllowList == {"TYREDOG", "JDY-08", "Realtek", "RB8762"}

CommandPayload == <<"$", "A", "0", "2", "4", "0", "1", "3", "8", "#">>

NotifyHandles == {"n1", "n2"}

WriteHandles == {"w1", "w2"}

\* how many steps of the given operation task i has issued
RECURSIVE CountOp(_, _)
CountOp(steps, op) ==
    IF steps = <<>> THEN 0
    ELSE (IF Head(steps).op = op THEN 1 ELSE 0) + CountOp(Tail(steps), op)

RECURSIVE Issued(_, _)
Issued(n, op) == IF n = 0 THEN 0 ELSE CountOp(tasks[n].steps, op) + Issued(n - 1, op)

\* the notification last handled, as text, and its fields
Handled == outcome # None

Decodable == Utf8Decode(data).ok

Text == Utf8Decode(data).text

SixteenChars == Handled /\ Decodable /\ Len(Text) = 16

PrefixSuffixOk == SubSeq(Text, 1, 3) = <<"$", "A", "0">> /\ Text[16] = "#"

Char(i) == Text[i + 1]

HexAt(i) == DigitValue(Char(i))

AllHex(positions) == \A i \in positions : IsHexDigit(Char(i))

Flags == 16 * HexAt(7) + HexAt(8)

FlagBit(b) == (Flags \div (2 ^ b)) % 2

Accepted == Handled /\ outcome = "updated"

NothingPublished ==
    /\ updates = <<>>
    /\ DOMAIN sensors = {}
    /\ device_type = None
    /\ title = device_name

\* C1: the handshake is issued exactly once per session: whatever
\* advertisements are processed, at most one subscribe and at most one
\* command write are ever issued.
C1_HandshakeIssuedOnce ==
    /\ Issued(Len(tasks), "start_notify") <= 1
    /\ Issued(Len(tasks), "write_value") <= 1

\* C2: processing an advertisement whose name is outside the allow-list sets
\* no device metadata, records no handle and starts no handshake.
C2_NameOutsideAllowListNeverMatches ==
    [][(adverts' = adverts + 1 /\ service_info'.name \notin AllowList)
        => UNCHANGED <<device_manufacturer, device_name, title, notify_char,
                       write_char, tasks, callbacks>>]_vars

C2_Witness ==
    /\ adverts = 1
    /\ service_info.name \notin AllowList
    /\ SERVICE_UUID \in service_info.service_uuids
    /\ \E i \in 1..Len(service_info.characteristics) :
           service_info.characteristics[i].uuid = NOTIFY_CHARACTERISTIC_UUID
    /\ \E i \in 1..Len(service_info.characteristics) :
           service_info.characteristics[i].uuid = WRITE_CHARACTERISTIC_UUID
    /\ device_name = None
    /\ notify_char = None
    /\ write_char = None
    /\ tasks = <<>>

\* C3: every handshake run does, in this order: the first delay, the subscribe
\* on a notify handle with the frame callback, the write of the 10 bytes
\* "$A0240138#" on a write handle with no acknowledgment, the second delay; the
\* write is issued only once the subscribe of the same run has returned.
C3_HandshakeOrder ==
    \A i \in 1..Len(tasks) :
        LET st == tasks[i].steps
        IN  /\ Len(st) \in 1..4
            /\ st[1].op = "sleep"
            /\ Len(st) >= 2 =>
                   /\ st[2].op = "start_notify"
                   /\ st[2].handle \in NotifyHandles
                   /\ st[2].callback = "_on_data_received"
            /\ Len(st) >= 3 =>
                   /\ st[3].op = "write_value"
                   /\ st[3].handle \in WriteHandles
                   /\ st[3].value = CommandPayload
                   /\ Len(st[3].value) = 10
                   /\ st[3].response = FALSE
                   /\ st[2].handle \in callbacks
            /\ Len(st) = 4 => st[4].op = "sleep"
            /\ tasks[i].pc = "done" => Len(st) = 4

C3_Witness ==
    \E i \in 1..Len(tasks) : tasks[i].pc = "done" /\ Len(tasks[i].steps) = 4

\* C4: a 16-character frame with the prefix and the suffix whose flags byte
\* has bit 7 clear produces no reading and no sensor update, whatever its
\* other flag bits and fields are.
C4_FreshnessGate ==
    (SixteenChars /\ PrefixSuffixOk /\ AllHex({7, 8}) /\ FlagBit(7) = 0)
        => (outcome # "updated" /\ NothingPublished)

C4_Witness ==
    /\ SixteenChars /\ PrefixSuffixOk /\ AllHex(6..12)
    /\ Flags = 7 * 16 + 3
    /\ outcome = "stale"
    /\ NothingPublished

\* C5: a 16-character input that does not start with "$A0" or does not end
\* with "#" is rejected for its format: no reading, no sensor update.
C5_FormatRejection ==
    (SixteenChars /\ ~PrefixSuffixOk) => (outcome = "format" /\ NothingPublished)

C5_Witness ==
    /\ SixteenChars
    /\ SubSeq(Text, 1, 3) # <<"$", "A", "0">>
    /\ Text[16] = "#"
    /\ AllHex(6..12)
    /\ FlagBit(7) = 1
    /\ outcome = "format"

\* C6: a notification whose byte length is not 16 gives no reading and no
\* sensor update.
C6_NotSixteenBytesDiscarded ==
    (Handled /\ Len(data) # 16) => (outcome # "updated" /\ NothingPublished)

\* C7: for an accepted frame, positions 9..11 are three hex digits and the
\* published pressure is their value (0..4095) plus 0.5 exactly when flags
\* bit 0 is set (the pressure is kept in half psi).
C7_PressureDecoding ==
    Accepted =>
        /\ AllHex({9, 10, 11})
        /\ LET raw == 256 * HexAt(9) + 16 * HexAt(10) + HexAt(11)
           IN  /\ raw \in 0..4095
               /\ sensors[PRESSURE] = 2 * raw + FlagBit(0)
               /\ updates[1].key = PRESSURE
               /\ updates[1].native_value = sensors[PRESSURE]

\* C8: for an accepted frame, positions 11 and 12 are two hex digits and the
\* published temperature is their value minus 40, within -40..215.
C8_TemperatureDecoding ==
    Accepted =>
        /\ AllHex({11, 12})
        /\ sensors[TEMPERATURE] = 16 * HexAt(11) + HexAt(12) - 40
        /\ sensors[TEMPERATURE] \in -40..215
        /\ updates[2].key = TEMPERATURE
        /\ updates[2].native_value = sensors[TEMPERATURE]

\* C9: the published battery value is 20 when flags bit 1 is set and 100
\* otherwise; no other battery value is ever published.
C9_BatteryBinary ==
    /\ BATTERY \in DOMAIN sensors => sensors[BATTERY] \in {20, 100}
    /\ \A i \in 1..Len(updates) :
           updates[i].key = BATTERY => updates[i].native_value \in {20, 100}
    /\ Accepted =>
           /\ sensors[BATTERY] = (IF FlagBit(1) = 1 THEN 20 ELSE 100)
           /\ updates[3].key = BATTERY
           /\ updates[3].native_value = sensors[BATTERY]

C9_Witness ==
    /\ Accepted
    /\ FlagBit(1) = 1
    /\ sensors[BATTERY] = 20

\* C10: for an accepted frame the sensor index is the hex digit at position 6
\* plus 1, within 1..16, and the name published with the reading is
\* "TPMS Sensor {sensor_index}".
C10_SensorIndexOneBased ==
    Accepted =>
        /\ IsHexDigit(Char(6))
        /\ HexAt(6) + 1 \in 1..16
        /\ title = "TPMS Sensor " \o ToString(HexAt(6) + 1)
        /\ device_type = title
        /\ Char(6) = "0" => title = "TPMS Sensor 1"
        /\ Char(6) = "3" => title = "TPMS Sensor 4"
        /\ Char(6) = "F" => title = "TPMS Sensor 16"

C10_Witness ==
    /\ Accepted
    /\ Char(6) = "3"
    /\ title = "TPMS Sensor 4"
    /\ device_type = "TPMS Sensor 4"

\* the keys of a sequence of update_sensor calls
UpdateKeys(calls) == [i \in 1..Len(calls) |-> calls[i].key]

\* C11: a notification gives either exactly the four updates pressure,
\* temperature, battery, timestamp and the refreshed name, or none at all and
\* no name change; the alarm key is never published and the subscription is
\* still registered after a rejection.
C11_AllFourOrNothing ==
    /\ "alarm" \notin DOMAIN sensors
    /\ \A i \in 1..Len(updates) : updates[i].key # "alarm"
    /\ Handled =>
           /\ callbacks = {"n1"}
           /\ IF outcome = "updated"
              THEN /\ UpdateKeys(updates)
                        = <<"pressure", "temperature", "battery", "timestamp">>
                   /\ DOMAIN sensors
                        = {"pressure", "temperature", "battery", "timestamp"}
                   /\ device_type # None
                   /\ title = device_type
              ELSE /\ updates = <<>>
                   /\ DOMAIN sensors = {}
                   /\ device_type = None
                   /\ title = device_name

C11_Witness ==
    /\ Accepted
    /\ Len(updates) = 4
    /\ sensors["timestamp"] = 1
    /\ title = "TPMS Sensor 4"

\* C12: a 16-character frame with the prefix and the suffix and a character
\* that is no hex digit at one of the positions 6..12 never produces a
\* reading, so every published reading has a sensor index in 1..16, a pressure
\* in 0..4095.5 (0..8191 half psi) and a temperature in -40..215.
C12_NonHexFieldRejected ==
    /\ (SixteenChars /\ PrefixSuffixOk /\ ~AllHex(6..12))
           => (outcome # "updated" /\ NothingPublished)
    /\ Accepted =>
           /\ HexAt(6) + 1 \in 1..16
           /\ sensors["pressure"] \in 0..8191
           /\ sensors["temperature"] \in -40..215

\* C13: handling a notification always ends in a return, whatever the bytes
\* are: undecodable bytes, a wrong length, a wrong prefix or suffix, a non-hex
\* field or a stale flag end at their return site, none raises, and the
\* subscription stays registered.
C13_HandlerNeverRaises ==
    Handled =>
        /\ outcome \in {"UnicodeDecodeError", "ignored", "format", "stale",
                        "error", "updated"}
        /\ pending = <<>>
        /\ callbacks = {"n1"}
        /\ ~Decodable => outcome = "UnicodeDecodeError"
        /\ (Decodable /\ Len(Text) # 16) => outcome = "ignored"
        /\ (SixteenChars /\ ~PrefixSuffixOk) => outcome = "format"
        /\ (SixteenChars /\ PrefixSuffixOk /\ ~AllHex({6, 7, 8})) => outcome = "error"
        /\ (SixteenChars /\ PrefixSuffixOk /\ AllHex({6, 7, 8}) /\ FlagBit(7) = 0)
               => outcome = "stale"

C13_Witness ==
    /\ SixteenChars /\ PrefixSuffixOk
    /\ ~IsHexDigit(Char(6))
    /\ outcome = "error"
    /\ NothingPublished
    /\ callbacks = {"n1"}

\* what each frame of a notification sequence gives when handled alone: the
\* return site and the published pressure (half psi), temperature, battery
\* and name
Alone(site, pressure, temperature, battery, name) ==
    [site |-> site, pressure |-> pressure, temperature |-> temperature,
     battery |-> battery, name |-> name]

ExpectedAlone(bytes) ==
    CASE bytes = AcceptedFrameA -> Alone("updated", 37, 0, 100, "TPMS Sensor 4")
      [] bytes = AcceptedFrameB -> Alone("updated", 7712, -40, 20, "TPMS Sensor 1")
      [] bytes = StaleFrame -> Alone("stale", 0, 0, 0, "")
      [] bytes = MalformedFrame -> Alone("error", 0, 0, 0, "")
      [] bytes = UndecodableFrame -> Alone("UnicodeDecodeError", 0, 0, 0, "")
      [] bytes = ShortFrame -> Alone("ignored", 0, 0, 0, "")

\* C14: whatever notifications were handled before it (accepted, rejected or
\* malformed), a frame gives the outcome and the pressure, temperature,
\* battery and sensor name it gives when handled alone.
C14_FrameOutcomeIndependentOfHistory ==
    Handled =>
        LET alone == ExpectedAlone(data)
        IN  /\ outcome = alone.site
            /\ IF alone.site = "updated"
               THEN /\ Len(updates) = 4
                    /\ updates[1].native_value = alone.pressure
                    /\ updates[2].native_value = alone.temperature
                    /\ updates[3].native_value = alone.battery
                    /\ title = alone.name
               ELSE updates = <<>>

C14_Witness ==
    /\ log = <<"error", "updated">>
    /\ data = AcceptedFrameA
    /\ updates[1].native_value = 37
    /\ title = "TPMS Sensor 4"

\* the frame whose flag digits have the given values, all else well formed
FrameWithFlags(hi, lo) ==
    <<"$", "A", "0", "0", "0", "0", "0", UpperHexDigits[hi + 1],
      UpperHexDigits[lo + 1], "0", "1", "2", "8", "0", "0", "#">>

\* C15: for all flag_high and flag_low in 0..15 and every bit b in 0..7,
\* byte2flag is true exactly when bit b of flag_high*16 + flag_low is 1
\* ((flags >> b) & 1 = 1); and in the decoder bit 7 is data_fresh, bit 1 is
\* battery_low and bit 0 is half_point.
C15_Byte2FlagIsShiftAndMask ==
    flag_call.done =>
        LET flags == flag_call.byte1 * 16 + flag_call.byte0
            Bit(b) == (flags \div (2 ^ b)) % 2
            parsed == Handle16ByteData(FrameWithFlags(flag_call.byte1, flag_call.byte0))
        IN  /\ flag_call.result = (Bit(flag_call.bit) = 1)
            /\ parsed.is_none = (Bit(7) = 0)
            /\ ~parsed.is_none =>
                   /\ parsed.battery = (IF Bit(1) = 1 THEN 20 ELSE 100)
                   /\ parsed.pressure = 2 * 18 + Bit(0)

C15_Witness ==
    /\ flag_call.done
    /\ flag_call.byte1 = 10
    /\ flag_call.byte0 = 5
    /\ flag_call.bit = 7
    /\ flag_call.result = TRUE

\* C16: a notify or write handle that is non-empty never becomes empty again,
\* whatever step is taken (advertisement, notification, handshake step), and the
\* handles change only in a step that processes an advertisement whose name is
\* in the allow-list and whose service set contains the target service UUID.
C16_PairMonotone ==
    [][/\ notify_char # None => notify_char' # None
       /\ write_char # None => write_char' # None
       /\ <<notify_char, write_char>>' # <<notify_char, write_char>> =>
              /\ adverts' = adverts + 1
              /\ service_info'.name \in AllowList
              /\ SERVICE_UUID \in service_info'.service_uuids]_vars

\* a complete pair kept through a later matching advertisement that carries
\* only a write characteristic, a handshake step and a notification
C16_Witness ==
    /\ adverts = 2
    /\ service_info = Advert("Realtek", {SERVICE_UUID}, <<W1>>)
    /\ notify_char = "n2"
    /\ write_char = "w1"
    /\ notifications = 1
    /\ \E i \in DOMAIN tasks : tasks[i].pc = "done"

\* the handles one operation was called on by the runs so far
StepHandles(op) ==
    UNION {{tasks[i].steps[k].handle :
               k \in {j \in DOMAIN tasks[i].steps : tasks[i].steps[j].op = op}} :
           i \in DOMAIN tasks}

BothPresent == notify_char # None /\ write_char # None

\* C17: a handshake run exists only when both handles are present; no
\* start_notify is issued on an empty notify handle and no write_value on an
\* empty write handle; the handles accumulate, so the advertisement that
\* completes the pair (the other handle coming from an earlier advertisement)
\* starts a run, and an advertisement that leaves the pair incomplete starts none.
C17_HandshakeOnlyWhenComplete ==
    /\ [](/\ tasks # <<>> => BothPresent
          /\ None \notin StepHandles("start_notify")
          /\ None \notin StepHandles("write_value")
          /\ \A i \in DOMAIN tasks :
                 tasks[i].notify_at_start # None /\ tasks[i].write_at_start # None)
    /\ [][/\ (~BothPresent /\ BothPresent') => Len(tasks') = Len(tasks) + 1
          /\ ~BothPresent' => tasks' = <<>>
          /\ Len(tasks') > Len(tasks) => (BothPresent' /\ adverts' = adverts + 1)]_vars

\* notify characteristics only, then a write characteristic only: the run
\* started on the second advertisement and used the accumulated handles
C17_Witness ==
    /\ adverts = 2
    /\ service_info = Advert("Realtek", {SERVICE_UUID}, <<W1>>)
    /\ notify_char = "n2"
    /\ write_char = "w1"
    /\ Len(tasks) = 1
    /\ tasks[1].pc = "sleep2"
    /\ StepHandles("start_notify") = {"n2"}
    /\ StepHandles("write_value") = {"w1"}

\* C18: a handshake run subscribes on and writes to the handles the session
\* held when the run was triggered, even if an advertisement carrying other
\* handles is processed while the run is suspended.
C18_RunUsesHandlesAtTrigger ==
    \A i \in DOMAIN tasks :
        \A k \in DOMAIN tasks[i].steps :
            LET step == tasks[i].steps[k]
            IN  /\ step.op = "start_notify" => step.handle = tasks[i].notify_at_start
                /\ step.op = "write_value" => step.handle = tasks[i].write_at_start

\* the first part of C19: a run whose subscribe failed wrote no command
FailedSubscribeWritesNothing ==
    \A i \in DOMAIN tasks :
        (tasks[i].pc = "raised" /\ CountOp(tasks[i].steps, "write_value") = 0) =>
            /\ CountOp(tasks[i].steps, "start_notify") = 1
            /\ Len(tasks[i].steps) = 2

\* C19: a run whose subscribe failed writes no command and ends with the
\* failure raised; a run triggered by an advertisement that comes after a
\* failed subscribe or write issues no subscribe and no command write.
C19_NoRetryAfterFailure ==
    /\ \A i \in DOMAIN tasks :
           tasks[i].pc = "raised" =>
               tasks[i].steps[Len(tasks[i].steps)].op \in {"start_notify", "write_value"}
    /\ FailedSubscribeWritesNothing
    /\ \A i \in DOMAIN tasks :
           tasks[i].after_failure =>
               /\ CountOp(tasks[i].steps, "start_notify") = 0
               /\ CountOp(tasks[i].steps, "write_value") = 0

\* the run has gone through its whole sequence and returned
Completed(i) ==
    /\ i \in DOMAIN tasks
    /\ tasks[i].pc = "done"
    /\ [k \in DOMAIN tasks[i].steps |-> tasks[i].steps[k].op]
           = <<"sleep", "start_notify", "write_value", "sleep">>

\* C20: when every delay and transport call returns and the scheduler is
\* fair, every handshake run that was started eventually subscribes, then
\* writes the command, and returns after its second delay, whatever
\* notifications and advertisements are interleaved with it.
C20_HandshakeRunCompletes ==
    \A i \in 1..MaxAdverts : (i \in DOMAIN tasks) ~> Completed(i)

\* a completed run that was overtaken by a notification and by another
\* advertisement whose run is still in its first delay
C20_Witness ==
    /\ Completed(1)
    /\ Len(tasks) = 2
    /\ tasks[2].pc = "sleep1"
    /\ notifications = 1
    /\ outcome # None

====
